---- MODULE Spec2Model ----
(***************************************************************************)
(* LeadRevive AI (src/main.py): form validation, weighted scoring, tier    *)
(* classification, the e-mail keyed upsert into leads.csv and the          *)
(* dashboard metrics computed from the file.                               *)
(*                                                                         *)
(* Text is modelled as a sequence of one-character strings, so that the    *)
(* validators, the CSV writer and the CSV reader are computed on the       *)
(* characters exactly as the code computes them.                           *)
(***************************************************************************)
EXTENDS Integers, Sequences, FiniteSets, TLC

VARIABLES
    file,    \* leads.csv: whether it exists and its data rows (text cells)
    now,     \* logical clock behind datetime.now()
    form,    \* widget values of the single-session run (name, email, ...)
    out,     \* what the last script run reported in the right-hand column
    dash,    \* dashboard metrics of the last script run
    sess,    \* per-session script position and locals (concurrent sessions)
    probe    \* arguments and results of direct calls of the scoring functions

vars == <<file, now, form, out, dash, sess, probe>>

-----------------------------------------------------------------------------
(* Bounds *)

\* Number of datetime.now() readings (accepted submissions) explored.
MaxClock == 3

\* Largest raw score handed to classify_lead when it is called directly.
MaxProbeScore == 101

-----------------------------------------------------------------------------
(* Characters *)

AsciiDigits == {"0", "1", "2", "3", "4", "5", "6", "7", "8", "9"}

\* A decimal digit outside ASCII (ARABIC-INDIC DIGIT THREE): str.isdigit()
\* and the regex class \w accept it, the CSV integer parser does not.
ArabicThree == "U+0663"

UnicodeDigits == AsciiDigits \cup {ArabicThree}

Letters ==
    {"a", "b", "c", "d", "e", "f", "g", "h", "i", "j", "k", "l", "m",
     "n", "o", "p", "q", "r", "s", "t", "u", "v", "w", "x", "y", "z",
     "A", "B", "C", "D", "E", "F", "G", "H", "I", "J", "K", "L", "M",
     "N", "O", "P", "Q", "R", "S", "T", "U", "V", "W", "X", "Y", "Z"}

\* \w of a str pattern
WordChars == Letters \cup UnicodeDigits \cup {"_"}

\* [\w\.-]
LocalChars == WordChars \cup {".", "-"}

AllIn(s, lo, hi, set) == \A i \in lo..hi : s[i] \in set

-----------------------------------------------------------------------------
(* Validation *)

\* re.match(r"^[\w\.-]+@[\w\.-]+\.\w+$", email): the match may end at the end
\* of the string or just before a final newline ($ without re.MULTILINE).
valid_email(email) ==
    \E n \in {Len(email)} \cup
             (IF Len(email) > 0 /\ email[Len(email)] = "\n"
                 THEN {Len(email) - 1} ELSE {}) :
        \E at \in 2..n, dot \in 3..n :
            /\ at + 1 < dot
            /\ dot < n
            /\ AllIn(email, 1, at - 1, LocalChars)
            /\ email[at] = "@"
            /\ AllIn(email, at + 1, dot - 1, LocalChars)
            /\ email[dot] = "."
            /\ AllIn(email, dot + 1, n, WordChars)

\* phone.isdigit() and len(phone) == 10
valid_phone(phone) ==
    /\ Len(phone) > 0
    /\ AllIn(phone, 1, Len(phone), UnicodeDigits)
    /\ Len(phone) = 10

\* The three checks of the `if analyze:` block, in order, each ending the
\* script run (st.stop()) on failure.  `not name` is true of "" only.
Validate(name, email, phone) ==
    IF name = <<>> THEN "MissingName"
    ELSE IF ~valid_email(email) THEN "InvalidEmail"
    ELSE IF ~valid_phone(phone) THEN "InvalidPhone"
    ELSE "ok"

-----------------------------------------------------------------------------
(* Scoring *)

Low == <<"L", "o", "w">>
Medium == <<"M", "e", "d", "i", "u", "m">>
High == <<"H", "i", "g", "h">>

Hot == <<"H", "o", "t">>
Warm == <<"W", "a", "r", "m">>
Cold == <<"C", "o", "l", "d">>

\* calculate_score with every threshold compared strictly (> for >=).
calculate_score_Strict(budget, urgency) ==
    LET budget_score ==
            IF budget > 100000 THEN 60
            ELSE IF budget > 50000 THEN 45
            ELSE IF budget > 20000 THEN 30
            ELSE IF budget > 0 THEN 15
            ELSE 0
        urgency_score ==
            IF urgency = High THEN 40
            ELSE IF urgency = Medium THEN 25
            ELSE IF urgency = Low THEN 10
            ELSE 0
    IN  budget_score + urgency_score

calculate_score(budget, urgency) ==
    LET budget_score ==
            IF budget >= 100000 THEN 60
            ELSE IF budget >= 50000 THEN 45
            ELSE IF budget >= 20000 THEN 30
            ELSE IF budget > 0 THEN 15
            ELSE 0
        urgency_score ==
            IF urgency = High THEN 40
            ELSE IF urgency = Medium THEN 25
            ELSE IF urgency = Low THEN 10
            ELSE 0
    IN  budget_score + urgency_score

\* classify_lead with the tier bounds compared strictly.
classify_lead_Strict(score) ==
    IF score > 80 THEN Hot
    ELSE IF score > 50 THEN Warm
    ELSE Cold

classify_lead(score) ==
    IF score >= 80 THEN Hot
    ELSE IF score >= 50 THEN Warm
    ELSE Cold

-----------------------------------------------------------------------------
(* leads.csv: writing (DataFrame.to_csv) and reading (pd.read_csv) *)

\* The header row written by to_csv: the keys of `data`, in order.
Columns ==
    {"Name", "Email", "Phone", "Budget", "Urgency", "LeadScore",
     "NumericScore", "Timestamp"}

DigitSeq == <<"0", "1", "2", "3", "4", "5", "6", "7", "8", "9">>

DigitVal(c) == CHOOSE d \in 0..9 : DigitSeq[d + 1] = c

\* str(int) for a non-negative int
RECURSIVE IntToText(_)
IntToText(n) ==
    IF n < 10 THEN <<DigitSeq[n + 1]>>
    ELSE IntToText(n \div 10) \o <<DigitSeq[(n % 10) + 1]>>

\* int(text) for a text of ASCII digits
RECURSIVE TextToNat(_)
TextToNat(s) ==
    IF s = <<>> THEN 0
    ELSE 10 * TextToNat(SubSeq(s, 1, Len(s) - 1)) + DigitVal(s[Len(s)])

\* The decimal text of the integer a digit string denotes: the leading zeros
\* are not part of the number.  An int64 cell is kept as this text, since a
\* ten-digit phone number does not fit the 32-bit integers of TLC.
RECURSIVE Canon(_)
Canon(s) ==
    IF Len(s) > 1 /\ s[1] = "0" THEN Canon(Tail(s)) ELSE s

\* str(datetime.now()): date and time separated by punctuation, never a number.
FormatTimestamp(t) == <<"T", ":">> \o IntToText(t)

\* Strings read_csv takes for a missing value (pandas' default na_values
\* that can be typed into the form with the characters modelled here).
NaValues ==
    {<<>>, <<"N", "A">>, <<"N", "a", "N">>, <<"n", "a", "n">>,
     <<"N", "U", "L", "L">>, <<"n", "u", "l", "l">>, <<"N", "o", "n", "e">>}

\* A cell text the C parser converts to int64: ASCII digits only.
IsIntLiteral(s) == Len(s) > 0 /\ AllIn(s, 1, Len(s), AsciiDigits)

StrCell(s) == [t |-> "str", v |-> s]
IntCell(s) == [t |-> "int", v |-> Canon(s)]
NaNCell == [t |-> "nan", v |-> <<>>]

\* Type inference of read_csv over one column of cell texts: a column whose
\* every cell is an integer literal becomes int64; any other column is an
\* object column holding the texts as they are, with missing values as NaN.
\* (A column mixing integer literals with missing values would become
\* float64; no column of this program's file can hold both.)
InferColumn(cells) ==
    IF \A i \in 1..Len(cells) : IsIntLiteral(cells[i])
    THEN [i \in 1..Len(cells) |-> IntCell(cells[i])]
    ELSE [i \in 1..Len(cells) |->
            IF cells[i] \in NaValues THEN NaNCell ELSE StrCell(cells[i])]

ColumnText(rows, c) == [i \in 1..Len(rows) |-> rows[i][c]]

\* pd.read_csv("leads.csv"): the DataFrame, one typed row per data line.
read_csv(rows) ==
    [i \in 1..Len(rows) |->
        [c \in Columns |-> InferColumn(ColumnText(rows, c))[i]]]

\* to_csv of one value: NaN is written as the empty field, a string as it is,
\* an int as its decimal text.
CellText(cell) == IF cell.t = "nan" THEN <<>> ELSE cell.v

\* df.to_csv("leads.csv", index=False): the data lines.
to_csv(df) ==
    [i \in 1..Len(df) |-> [c \in Columns |-> CellText(df[i][c])]]

NoFile == [exists |-> FALSE, rows |-> <<>>]

\* existing_df["Email"] == email, element by element
CellIs(cell, text) == cell.t = "str" /\ cell.v = text

-----------------------------------------------------------------------------
(* The `if analyze:` block after validation *)

\* Duplicate detection written `email in existing_df["Email"]`, which looks
\* the address up among the row labels 0..n-1 of the column.
WasDuplicate_IndexLookup(f, email) ==
    /\ f.exists
    /\ \E i \in 1..Len(f.rows) : IntToText(i - 1) = email

\* Duplicate detection: the file exists and the e-mail is among its values.
WasDuplicate(f, email) ==
    /\ f.exists
    /\ LET existing_df == read_csv(f.rows)
       IN  \E i \in 1..Len(existing_df) : CellIs(existing_df[i]["Email"], email)

\* `data`: the row of the submission, with the Python values of the form.
NewRow(fm, score, classification, t) ==
    [c \in Columns |->
        CASE c = "Name" -> StrCell(fm.name)
          [] c = "Email" -> StrCell(fm.email)
          [] c = "Phone" -> StrCell(fm.phone)
          [] c = "Budget" -> IntCell(IntToText(fm.budget))
          [] c = "Urgency" -> StrCell(fm.urgency)
          [] c = "LeadScore" -> StrCell(classification)
          [] c = "NumericScore" -> IntCell(IntToText(score))
          [] c = "Timestamp" -> StrCell(FormatTimestamp(t))]

\* The save without the filter on the e-mail: the row is only appended.
DropEmail_KeepAll(existing, email) == existing

\* existing[existing["Email"] != email]
DropEmail(existing, email) ==
    SelectSeq(existing, LAMBDA r : ~CellIs(r["Email"], email))

\* new_df as it stands before the write: the one row, or, when the file
\* exists, pd.concat([existing without the e-mail, new_df]).
BuildFrame(f, row) ==
    IF f.exists
    THEN DropEmail(read_csv(f.rows), row["Email"].v) \o <<row>>
    ELSE <<row>>

\* A write that reads the file again and merges the session's row into it.
WriteBack_Merge(f, new_df) ==
    [exists |-> TRUE,
     rows |-> to_csv(BuildFrame(f, new_df[Len(new_df)]))]

\* new_df.to_csv("leads.csv", index=False): the file after the write.
WriteBack(f, new_df) == [exists |-> TRUE, rows |-> to_csv(new_df)]

-----------------------------------------------------------------------------
(* Dashboard *)

\* Budget after pd.to_numeric(errors="coerce"): the number, or NaN, which
\* sum() skips.
BudgetValue(cell) == IF cell.t = "int" THEN TextToNat(cell.v) ELSE 0

RECURSIVE SumBudget(_)
SumBudget(df) ==
    IF df = <<>> THEN 0
    ELSE BudgetValue(Head(df)["Budget"]) + SumBudget(Tail(df))

\* The revenue and the count taken over every row, whatever its tier.
HotRows_All(df) == df

\* df[df["Lead Score"] == "Hot"]
HotRows(df) == SelectSeq(df, LAMBDA r : CellIs(r["LeadScore"], Hot))

NoDash ==
    [shown |-> FALSE, total_leads |-> 0, hot_leads |-> 0,
     total_revenue |-> 0, projected_revenue |-> 0]

\* The metrics of the dashboard block, or the "No leads captured yet" note.
\* int(x * 0.3) of an integer x is (3x) \div 10: the product is rounded to the
\* nearest double, which is the integer itself whenever 3x/10 is one.
\* (conversion_rate, a one-decimal float, is left out.)
Dashboard(f) ==
    IF ~f.exists THEN NoDash
    ELSE LET df == read_csv(f.rows)
         IN  [shown |-> TRUE,
              total_leads |-> Len(df),
              hot_leads |-> Len(HotRows(df)),
              total_revenue |-> SumBudget(df),
              projected_revenue |-> (3 * SumBudget(HotRows(df))) \div 10]

-----------------------------------------------------------------------------
(* Form inputs explored *)

NameAl == <<"A", "l">>
NameBlank == <<" ">>
NameNA == <<"N", "A">>

EmailLower == <<"a", "@", "b", ".", "c", "o">>
EmailUpper == <<"A", "@", "b", ".", "c", "o">>
EmailBad == <<"n", "o", "t", "-", "a", "n", "-", "e", "m", "a", "i", "l">>

\* EmailLower and EmailUpper differ in case only; EmailBad has no "@".

PhoneZero == <<"0", "1", "2", "3", "4", "5", "6", "7", "8", "9">>
PhoneNine == <<"9", "8", "7", "6", "5", "4", "3", "2", "1", "0">>
PhoneShort == <<"1", "2", "3", "4", "5">>
PhoneArabic ==
    <<"9", "8", "7", "6", "5", "4", "3", "2", "1", ArabicThree>>

\* st.number_input(min_value=0): a non-negative int.
Budgets == {0, 100001}

\* st.selectbox("Buying Intent", ["Low", "Medium", "High"])
Urgencies == {Low, Medium, High}

\* Accepted contact details, among them a name of whitespace only and a
\* phone number with a leading zero, with one budget and urgency.
ContactForms ==
    [name : {NameBlank, NameAl}, email : {EmailLower, EmailUpper},
     phone : {PhoneZero, PhoneNine}, budget : {100001}, urgency : {High}]

\* A form every check accepts.
GoodForm ==
    [name |-> NameAl, email |-> EmailLower, phone |-> PhoneNine,
     budget |-> 100001, urgency |-> High]

\* Forms failing one check, or several (the first failing check reports).
RejectedForms ==
    {[GoodForm EXCEPT !.name = <<>>],
     [GoodForm EXCEPT !.email = EmailBad],
     [GoodForm EXCEPT !.phone = PhoneShort],
     [GoodForm EXCEPT !.name = <<>>, !.email = EmailBad, !.phone = PhoneShort],
     [GoodForm EXCEPT !.email = EmailBad, !.phone = PhoneShort]}

\* Every budget and urgency, with one name and phone.
ScoringForms ==
    [name : {NameAl}, email : {EmailLower, EmailUpper}, phone : {PhoneNine},
     budget : Budgets, urgency : Urgencies]

\* A name read_csv takes for a missing value, and a phone number of digits
\* that are not all ASCII.
OddForms ==
    {[name |-> NameNA, email |-> EmailLower, phone |-> PhoneNine,
      budget |-> 0, urgency |-> Low],
     [name |-> NameAl, email |-> EmailUpper, phone |-> PhoneArabic,
      budget |-> 0, urgency |-> Low]}

Forms == ContactForms \cup RejectedForms \cup ScoringForms \cup OddForms

\* The widgets before anything is typed.
EmptyForm ==
    [name |-> <<>>, email |-> <<>>, phone |-> <<>>, budget |-> 0,
     urgency |-> Low]

-----------------------------------------------------------------------------
(* One session: a script run is one step *)

\* A run that did not enter the `if analyze:` block.
IdleOut ==
    [analyzed |-> FALSE, errorKind |-> "none", wasDuplicate |-> FALSE,
     score |-> 0, tier |-> <<>>]

RejectedOut(err) ==
    [analyzed |-> TRUE, errorKind |-> err, wasDuplicate |-> FALSE,
     score |-> 0, tier |-> <<>>]

\* The checks reporting their error without st.stop(): the run goes on.
FileAfterRun_NoStop(f, err, row) == WriteBack(f, BuildFrame(f, row))

\* leads.csv at the end of a run of the `if analyze:` block: left alone when
\* a check failed (st.stop() ends the run), else rewritten from new_df.
FileAfterRun(f, err, row) ==
    IF err = "ok" THEN WriteBack(f, BuildFrame(f, row)) ELSE f

IdleSess ==
    [pc |-> "idle", form |-> EmptyForm, score |-> 0, tier |-> <<>>,
     dup |-> FALSE, row |-> <<>>, new_df |-> <<>>, dash |-> NoDash]

Sessions == {"s1", "s2"}

NoProbe ==
    [pc |-> "none", budget |-> 0, urgency |-> <<>>, raw |-> 0,
     score |-> 0, tier |-> <<>>]

Init ==
    /\ file = NoFile
    /\ now = 0
    /\ form = EmptyForm
    /\ out = IdleOut
    /\ dash = NoDash
    /\ sess = [s \in Sessions |-> IdleSess]
    /\ probe = NoProbe

\* "Analyze Lead" pressed with the widgets holding fm: validation, scoring,
\* duplicate detection, the save and the dashboard, to the end of the script.
Submit(fm) ==
    LET err == Validate(fm.name, fm.email, fm.phone)
        score == calculate_score(fm.budget, fm.urgency)
        classification == classify_lead(score)
        row == NewRow(fm, score, classification, now + 1)
    IN  /\ err = "ok" => now < MaxClock
        /\ form' = fm
        /\ file' = FileAfterRun(file, err, row)
        /\ IF err = "ok"
           THEN /\ out' = [analyzed |-> TRUE, errorKind |-> "none",
                           wasDuplicate |-> WasDuplicate(file, fm.email),
                           score |-> score, tier |-> classification]
                /\ dash' = Dashboard(file')
                /\ now' = now + 1
           ELSE /\ out' = RejectedOut(err)
                /\ dash' = NoDash
                /\ now' = now
        /\ UNCHANGED <<sess, probe>>

\* A script run without the button pressed: only the dashboard block runs.
Render ==
    /\ out' = IdleOut
    /\ dash' = Dashboard(file)
    /\ UNCHANGED <<file, now, form, sess, probe>>

Next ==
    \/ \E fm \in Forms : Submit(fm)
    \/ Render

Spec == Init /\ [][Next]_vars

-----------------------------------------------------------------------------
(* The scoring functions called directly *)

\* Budgets on both sides of every threshold of calculate_score.
ProbeBudgets ==
    {-1, 0, 1, 19999, 20000, 20001, 49999, 50000, 50001, 99999, 100000,
     100001, 1000000}

\* The three intents of the selectbox and two values the map does not hold.
ProbeUrgencies == Urgencies \cup {<<>>, <<"h", "i", "g", "h">>}

ProbeScores == -1..MaxProbeScore

ProbeArgs ==
    [pc : {"args"}, budget : ProbeBudgets, urgency : ProbeUrgencies,
     raw : {0}, score : {0}, tier : {<<>>}]
    \cup
    [pc : {"args"}, budget : {0}, urgency : {Low}, raw : ProbeScores,
     score : {0}, tier : {<<>>}]

InitScore ==
    /\ file = NoFile
    /\ now = 0
    /\ form = EmptyForm
    /\ out = IdleOut
    /\ dash = NoDash
    /\ sess = [s \in Sessions |-> IdleSess]
    /\ probe \in ProbeArgs

\* calculate_score(budget, urgency)
CallScore ==
    /\ probe.pc = "args"
    /\ probe' = [probe EXCEPT !.pc = "scored",
                    !.score = calculate_score(probe.budget, probe.urgency)]
    /\ UNCHANGED <<file, now, form, out, dash, sess>>

\* classify_lead(score)
CallClassify ==
    /\ probe.pc = "args"
    /\ probe' = [probe EXCEPT !.pc = "classified",
                    !.tier = classify_lead(probe.raw)]
    /\ UNCHANGED <<file, now, form, out, dash, sess>>

\* The same budget and urgency entered in the form, when the widgets can
\* hold them, and submitted under either address.
SubmitProbe(email) ==
    /\ probe.pc = "scored"
    /\ probe.budget >= 0
    /\ probe.urgency \in Urgencies
    /\ Submit([GoodForm EXCEPT !.email = email, !.budget = probe.budget,
                               !.urgency = probe.urgency])

NextScore ==
    \/ CallScore
    \/ CallClassify
    \/ \E email \in {EmailLower, EmailUpper} : SubmitProbe(email)

SpecScore == InitScore /\ [][NextScore]_vars

-----------------------------------------------------------------------------
(* Concurrent sessions: each script run advances a statement block at a time *)

\* The forms the concurrent sessions submit.
ConcForms ==
    {GoodForm, [GoodForm EXCEPT !.email = EmailUpper],
     [GoodForm EXCEPT !.email = EmailBad]}

\* Sessions that will still read datetime.now() in their current run.
AwaitingClock == {s \in Sessions : sess[s].pc = "dupcheck"}

\* "Analyze Lead" pressed in session s: validation, score, classification.
CStart(s, fm) ==
    LET err == Validate(fm.name, fm.email, fm.phone)
        score == calculate_score(fm.budget, fm.urgency)
    IN  /\ sess[s].pc \in {"idle", "stopped", "done"}
        /\ err = "ok" => now + Cardinality(AwaitingClock) < MaxClock
        /\ sess' = [sess EXCEPT ![s] =
                      IF err = "ok"
                      THEN [IdleSess EXCEPT !.pc = "dupcheck", !.form = fm,
                                            !.score = score,
                                            !.tier = classify_lead(score)]
                      ELSE [IdleSess EXCEPT !.pc = "stopped", !.form = fm]]
        /\ UNCHANGED <<file, now, form, out, dash, probe>>

\* Duplicate detection reads the file; then `data` is built with the time.
CDupCheck(s) ==
    LET me == sess[s]
    IN  /\ me.pc = "dupcheck"
        /\ now' = now + 1
        /\ sess' = [sess EXCEPT ![s] =
                      [me EXCEPT !.pc = "load",
                                 !.dup = WasDuplicate(file, me.form.email),
                                 !.row = NewRow(me.form, me.score, me.tier,
                                                now + 1)]]
        /\ UNCHANGED <<file, form, out, dash, probe>>

\* The file is read again, the e-mail dropped and the row appended.
CLoad(s) ==
    LET me == sess[s]
    IN  /\ me.pc = "load"
        /\ sess' = [sess EXCEPT ![s] =
                      [me EXCEPT !.pc = "write",
                                 !.new_df = BuildFrame(file, me.row)]]
        /\ UNCHANGED <<file, now, form, out, dash, probe>>

\* new_df.to_csv("leads.csv", index=False)
CWrite(s) ==
    /\ sess[s].pc = "write"
    /\ file' = WriteBack(file, sess[s].new_df)
    /\ sess' = [sess EXCEPT ![s] = [sess[s] EXCEPT !.pc = "dash"]]
    /\ UNCHANGED <<now, form, out, dash, probe>>

\* The dashboard block of the same run.
CDashboard(s) ==
    /\ sess[s].pc = "dash"
    /\ sess' = [sess EXCEPT ![s] =
                  [sess[s] EXCEPT !.pc = "done", !.dash = Dashboard(file)]]
    /\ UNCHANGED <<file, now, form, out, dash, probe>>

NextConc ==
    \E s \in Sessions :
        \/ \E fm \in ConcForms : CStart(s, fm)
        \/ CDupCheck(s)
        \/ CLoad(s)
        \/ CWrite(s)
        \/ CDashboard(s)

SpecConc == Init /\ [][NextConc]_vars

-----------------------------------------------------------------------------
(* Properties *)

RowEmails(rows) == {rows[i]["Email"] : i \in 1..Len(rows)}

RowsOf(rows, email) == {i \in 1..Len(rows) : rows[i]["Email"] = email}

\* The last run accepted the form and saved it.
Accepted == out.analyzed /\ out.errorKind = "none"

\* A step in which a form was accepted and saved.
AcceptedStep == out'.analyzed /\ out'.errorKind = "none" /\ now' = now + 1

\* The line of the submitted record, field by field as entered and computed.
SubmittedLine(fm, score, tier, t) ==
    [c \in Columns |->
        CASE c = "Name" -> fm.name
          [] c = "Email" -> fm.email
          [] c = "Phone" -> fm.phone
          [] c = "Budget" -> IntToText(fm.budget)
          [] c = "Urgency" -> fm.urgency
          [] c = "LeadScore" -> tier
          [] c = "NumericScore" -> IntToText(score)
          [] c = "Timestamp" -> FormatTimestamp(t)]

LinesWithout(rows, email) == SelectSeq(rows, LAMBDA r : r["Email"] # email)

\* C1: whatever forms were submitted, valid or not, new or repeated, the file
\* holds at most one record per e-mail address, addresses compared exactly
\* (case-sensitively).
C1_OneRecordPerEmail ==
    \A i, j \in 1..Len(file.rows) :
        file.rows[i]["Email"] = file.rows[j]["Email"] => i = j

\* A repeated address was submitted while the file held two addresses that
\* differ in case only.
C1_Witness ==
    /\ Accepted
    /\ out.wasDuplicate
    /\ RowEmails(file.rows) = {EmailLower, EmailUpper}

\* C2: an accepted submission leaves the file equal to the lines it held
\* before, those of the submitted address removed and the others unchanged
\* and in order, followed by the submitted record as entered.
C2_UpsertReplacesAndAppends ==
    [][AcceptedStep =>
          /\ file'.exists
          /\ file'.rows =
                LinesWithout(file.rows, form'.email)
                \o <<SubmittedLine(form', out'.score, out'.tier, now')>>]_vars

\* C3: a submission refused by validation leaves the file as it was: its
\* lines are the same, and a file that did not exist is not created.
C3_RejectedLeavesFile ==
    [][(out'.analyzed /\
        out'.errorKind \in {"MissingName", "InvalidEmail", "InvalidPhone"})
          => file' = file]_vars

\* An address without "@" was refused while the file held two records.
C3_Witness ==
    /\ out.analyzed
    /\ out.errorKind = "InvalidEmail"
    /\ form.email = EmailBad
    /\ Len(file.rows) = 2

IsBlank(s) == \A i \in 1..Len(s) : s[i] \in {" ", "\t"}

\* C4: a submission whose name is empty or whitespace only is refused with
\* MissingName, so the record a submission writes to the file never has such
\* a name.
C4_BlankNameRejected ==
    /\ (out.analyzed /\ IsBlank(form.name)) => out.errorKind = "MissingName"
    /\ Accepted =>
          \A i \in RowsOf(file.rows, form.email) :
              ~IsBlank(file.rows[i]["Name"])

\* C5: an accepted submission raises the duplicate advisory exactly when the
\* file held the address just before the save; the save then still happens:
\* the file keeps its number of records and holds one record for the
\* address, the one just submitted.
C5_DuplicateAdvisory ==
    [][AcceptedStep =>
          /\ out'.wasDuplicate <=>
                (file.exists /\ form'.email \in RowEmails(file.rows))
          /\ out'.wasDuplicate =>
                /\ Len(file'.rows) = Len(file.rows)
                /\ Cardinality(RowsOf(file'.rows, form'.email)) = 1
                /\ \A i \in RowsOf(file'.rows, form'.email) :
                      file'.rows[i]["Timestamp"] = FormatTimestamp(now')
          /\ ~out'.wasDuplicate => Len(file'.rows) = Len(file.rows) + 1]_vars

\* The only record of the file was submitted again.
C5_Witness ==
    /\ Accepted
    /\ out.wasDuplicate
    /\ Len(file.rows) = 1
    /\ now = 2

\* C6: after an accepted submission, reading the file back yields a record
\* for the address whose every field is what was submitted: the name as
\* entered, the phone number as the ten digits entered, the budget as a
\* number, the urgency, the tier, the score and the time of capture.
C6_RoundTrip ==
    Accepted =>
        LET df == read_csv(file.rows)
        IN  \E i \in 1..Len(df) :
                /\ CellText(df[i]["Email"]) = form.email
                /\ CellText(df[i]["Name"]) = form.name
                /\ CellText(df[i]["Phone"]) = form.phone
                /\ Len(CellText(df[i]["Phone"])) = 10
                /\ df[i]["Budget"].t = "int"
                /\ TextToNat(df[i]["Budget"].v) = form.budget
                /\ CellText(df[i]["Urgency"]) = form.urgency
                /\ CellText(df[i]["LeadScore"]) = out.tier
                /\ TextToNat(CellText(df[i]["NumericScore"])) = out.score
                /\ CellText(df[i]["Timestamp"]) = FormatTimestamp(now)

BudgetComponent(b) ==
    CASE b >= 100000 -> 60
      [] b >= 50000 /\ b < 100000 -> 45
      [] b >= 20000 /\ b < 50000 -> 30
      [] b > 0 /\ b < 20000 -> 15
      [] b <= 0 -> 0

UrgencyComponent(u) ==
    CASE u = High -> 40
      [] u = Medium -> 25
      [] u = Low -> 10
      [] OTHER -> 0

\* C7: the score of a budget and an urgency is the budget component (60 from
\* 100000, 45 from 50000, 30 from 20000, 15 above 0, else 0) plus the urgency
\* component (High 40, Medium 25, Low 10, anything else 0); it lies in
\* 0..100; 100000 or more with High gives 100 and 0 with Low gives 10.
C7_Score ==
    /\ probe.pc = "scored" =>
          /\ probe.score =
                BudgetComponent(probe.budget) + UrgencyComponent(probe.urgency)
          /\ probe.score \in 0..100
          /\ (probe.budget >= 100000 /\ probe.urgency = High)
                => probe.score = 100
          /\ (probe.budget = 0 /\ probe.urgency = Low) => probe.score = 10
    /\ Accepted =>
          out.score =
             BudgetComponent(form.budget) + UrgencyComponent(form.urgency)

\* A budget on a threshold scored with an urgency the map does not hold.
C7_Witness ==
    /\ probe.pc = "scored"
    /\ probe.budget = 50000
    /\ probe.urgency = <<>>
    /\ probe.score = 45

TierOf(score) ==
    CASE score >= 80 -> Hot
      [] score >= 50 /\ score < 80 -> Warm
      [] score < 50 -> Cold

\* C8: a score of 80 or more is Hot, one from 50 to 79 is Warm, one below 50
\* is Cold (80 Hot, 79 Warm, 50 Warm, 49 Cold); and every line of the file
\* has the tier of its score and the score of its budget and urgency.
C8_Classify ==
    /\ probe.pc = "classified" =>
          /\ probe.tier = Hot <=> probe.raw >= 80
          /\ probe.tier = Warm <=> (probe.raw >= 50 /\ probe.raw < 80)
          /\ probe.tier = Cold <=> probe.raw < 50
          /\ probe.raw = 80 => probe.tier = Hot
          /\ probe.raw = 79 => probe.tier = Warm
          /\ probe.raw = 50 => probe.tier = Warm
          /\ probe.raw = 49 => probe.tier = Cold
    /\ \A i \in 1..Len(file.rows) :
          LET line == file.rows[i]
          IN  /\ line["LeadScore"] = TierOf(TextToNat(line["NumericScore"]))
              /\ TextToNat(line["NumericScore"]) =
                    BudgetComponent(TextToNat(line["Budget"]))
                    + UrgencyComponent(line["Urgency"])

\* The score 80 was classified.
C8_Witness ==
    /\ probe.pc = "classified"
    /\ probe.raw = 80
    /\ probe.tier = Hot

RECURSIVE BudgetOver(_, _)
BudgetOver(rows, idx) ==
    IF idx = {} THEN 0
    ELSE LET i == CHOOSE k \in idx : TRUE
         IN  TextToNat(rows[i]["Budget"]) + BudgetOver(rows, idx \ {i})

HotLines(rows) == {i \in 1..Len(rows) : rows[i]["LeadScore"] = Hot}

\* C9: the dashboard reports the number of records as total leads, the number
\* of Hot records as hot leads, and as projected revenue the integer part of
\* 0.3 times the budgets of the Hot records alone.
C9_Summary ==
    dash.shown =>
        /\ dash.total_leads = Len(file.rows)
        /\ dash.hot_leads = Cardinality(HotLines(file.rows))
        /\ dash.projected_revenue =
              (3 * BudgetOver(file.rows, HotLines(file.rows))) \div 10

\* One Hot and one Warm record, both with a budget of 100001: the Warm budget
\* adds nothing and 30000.3 is cut to 30000.
C9_Witness ==
    /\ dash.shown
    /\ dash.total_leads = 2
    /\ dash.hot_leads = 1
    /\ dash.projected_revenue = 30000
    /\ \E i \in 1..Len(file.rows) :
          /\ file.rows[i]["LeadScore"] = Warm
          /\ TextToNat(file.rows[i]["Budget"]) = 100001

Wrote(s) == sess[s].pc \in {"dash", "done"}

FrameEmails(df) == {CellText(df[i]["Email"]) : i \in 1..Len(df)}

\* C10: two sessions have each saved a submission, under different addresses,
\* and the table each wrote back was built from a file read before the other
\* wrote (it lacks the other's address): then the file does not hold both
\* records, because each write replaced the whole file with its own table.
C10_LostUpdate ==
    \A s, t \in Sessions :
        (/\ s # t
         /\ Wrote(s)
         /\ Wrote(t)
         /\ sess[s].form.email # sess[t].form.email
         /\ sess[t].form.email \notin FrameEmails(sess[s].new_df)
         /\ sess[s].form.email \notin FrameEmails(sess[t].new_df))
        => ~({sess[s].form.email, sess[t].form.email}
                \subseteq RowEmails(file.rows))

\* Both sessions completed a submission, the only two ever accepted, under
\* different addresses, and the file holds one record.
C10_Witness ==
    /\ \A s \in Sessions : sess[s].pc = "done"
    /\ sess["s1"].form.email # sess["s2"].form.email
    /\ now = 2
    /\ Len(file.rows) = 1

====
